---- MODULE Spec2Model ----
(***************************************************************************)
(* Model of download_assets.py (Breathscape Webflow migration script).     *)
(*                                                                         *)
(* Text is modelled as a sequence of tokens.  A token is either a single   *)
(* character of the text or a fixed multi-character chunk (a CDN host      *)
(* prefix, the words css and js, ...).  The token set is prefix-free and   *)
(* the letter h occurs only at the start of a host prefix, so an           *)
(* occurrence of a URL in a text at the level of characters is an          *)
(* occurrence at the level of tokens and conversely, and comparing two     *)
(* token sequences by TokRank is comparing the two Python strings.         *)
(***************************************************************************)
EXTENDS Integers, Sequences, FiniteSets, TLC

\* ------------------------------------------------------------------ tokens

H1 == "https://cdn.prod.website-files.com/"
H2 == "https://d3e54v103j8qbb.cloudfront.net/"
HX == "https://example.com/"
SLASH == "/"
QMARK == "?"
DQUOTE == "\""
SQUOTE == "'"
SPACE == " "
RPAREN == ")"
LT == "<"
GT == ">"
WF == "website-files.com"
CF == "cloudfront.net"

Hosts == {H1, H2, HX}

\* Code-point order of the first character in which two tokens differ.
TokRank(t) ==
  CASE t = SPACE -> 0
    [] t = DQUOTE -> 1
    [] t = SQUOTE -> 2
    [] t = RPAREN -> 3
    [] t = SLASH -> 4
    [] t = LT -> 5
    [] t = GT -> 6
    [] t = QMARK -> 7
    [] t = CF -> 8
    [] t = "css" -> 9
    [] t = H1 -> 10
    [] t = H2 -> 11
    [] t = HX -> 12
    [] t = "js" -> 13
    [] t = WF -> 14
    [] t = "x" -> 15
    [] t = "y" -> 16

\* Python's str < str.
StrLess(a, b) ==
  \E i \in 1..(Len(a) + 1) :
    /\ \A k \in 1..(i - 1) : k <= Len(b) /\ a[k] = b[k]
    /\ i <= Len(b)
    /\ (i = Len(a) + 1 \/ TokRank(a[i]) < TokRank(b[i]))

\* ------------------------------------------------------- string primitives

\* s[i:].startswith(u)
StartsAt(s, u, i) ==
  /\ i + Len(u) - 1 <= Len(s)
  /\ \A k \in 1..Len(u) : s[i + k - 1] = u[k]

\* u in s
Contains(s, u) == \E i \in 1..(Len(s) + 1) : StartsAt(s, u, i)

Drop(s, n) == SubSeq(s, n + 1, Len(s))

\* s.lstrip('/')
RECURSIVE LStrip(_)
LStrip(s) == IF s # <<>> /\ s[1] = SLASH THEN LStrip(Tail(s)) ELSE s

\* s.split(sep)[0]
UpTo(s, sep) ==
  IF \E i \in 1..Len(s) : s[i] = sep
    THEN SubSeq(s, 1, (CHOOSE i \in 1..Len(s) :
                         s[i] = sep /\ \A k \in 1..(i - 1) : s[k] # sep) - 1)
    ELSE s

\* s.split(sep)[-1]
LastPart(s, sep) ==
  IF \E i \in 1..Len(s) : s[i] = sep
    THEN Drop(s, CHOOSE i \in 1..Len(s) :
                   s[i] = sep /\ \A k \in (i + 1)..Len(s) : s[k] # sep)
    ELSE s

\* len(s.split(sep))
NumParts(s, sep) == Cardinality({i \in 1..Len(s) : s[i] = sep}) + 1

\* A text whose every character carries the position it had in the original
\* text (0 for a character a replacement put in): <<character, position>>.
Tagged(s) == [i \in 1..Len(s) |-> <<s[i], i>>]

Untag(t) == [i \in 1..Len(t) |-> t[i][1]]

Inserted(s) == [i \in 1..Len(s) |-> <<s[i], 0>>]

\* t[i:].startswith(u), t tagged
TaggedStartsAt(t, u, i) ==
  /\ i + Len(u) - 1 <= Len(t)
  /\ \A k \in 1..Len(u) : t[i + k - 1][1] = u[k]

\* t.replace(old, new), from position i on: the occurrences are taken from the
\* left and do not overlap
RECURSIVE ReplaceFrom(_, _, _, _)
ReplaceFrom(t, i, old, new) ==
  IF i > Len(t) THEN <<>>
  ELSE IF TaggedStartsAt(t, old, i)
    THEN Inserted(new) \o ReplaceFrom(t, i + Len(old), old, new)
    ELSE <<t[i]>> \o ReplaceFrom(t, i + 1, old, new)

\* str.replace(old, new, 1): only the first occurrence
Replace_FirstOnly(t, old, new) ==
  IF \E i \in 1..Len(t) : TaggedStartsAt(t, old, i)
    THEN LET i == CHOOSE i \in 1..Len(t) :
                    /\ TaggedStartsAt(t, old, i)
                    /\ \A k \in 1..(i - 1) : ~TaggedStartsAt(t, old, k)
         IN SubSeq(t, 1, i - 1) \o Inserted(new) \o Drop(t, i + Len(old) - 1)
    ELSE t

\* str.replace
Replace(t, old, new) == ReplaceFrom(t, 1, old, new)

\* --------------------------------------------------------- extract_cdn_urls

\* the class with '<' excluded as well
IsTerminator_WithLT(c) == c \in {DQUOTE, SPACE, RPAREN, GT, LT}

\* the characters the class [^"\s\)>] excludes
IsTerminator(c) == c \in {DQUOTE, SPACE, RPAREN, GT}

\* last position of the run of [^"\s\)>] characters that starts at i
RECURSIVE RunEnd(_, _)
RunEnd(s, i) ==
  IF i + 1 <= Len(s) /\ ~IsTerminator(s[i + 1]) THEN RunEnd(s, i + 1) ELSE i

\* re.findall(host + '[^"\s\)>]+', s), scanning from position i
RECURSIVE FindAll(_, _, _)
FindAll(s, i, host) ==
  IF i > Len(s) THEN {}
  ELSE IF s[i] = host /\ i + 1 <= Len(s) /\ ~IsTerminator(s[i + 1])
    THEN {SubSeq(s, i, RunEnd(s, i))} \cup FindAll(s, RunEnd(s, i) + 1, host)
    ELSE FindAll(s, i + 1, host)

extract_cdn_urls(html_content) ==
  FindAll(html_content, 1, H1) \cup FindAll(html_content, 1, H2)

\* -------------------------------------------------------- url_to_local_path

\* The characters of a token, cut at its slashes (a host prefix inside a path).
Atoms(t) ==
  CASE t = H1 -> <<"https:", SLASH, SLASH, "cdn.prod.website-files.com", SLASH>>
    [] t = H2 -> <<"https:", SLASH, SLASH, "d3e54v103j8qbb.cloudfront.net", SLASH>>
    [] t = HX -> <<"https:", SLASH, SLASH, "example.com", SLASH>>
    [] OTHER -> <<t>>

RECURSIVE Expand(_)
Expand(s) == IF s = <<>> THEN <<>> ELSE Atoms(s[1]) \o Expand(Tail(s))

\* urlparse(url).path of a URL that starts with a host prefix: from the slash
\* that ends the host prefix up to the query
UrlPath(url) == <<SLASH>> \o Expand(UpTo(Tail(url), QMARK))

\* 'website-files.com' in url
HasWebsiteFiles(url) == \E i \in 1..Len(url) : url[i] \in {H1, WF}

\* 'cloudfront.net' in url
HasCloudfront(url) == \E i \in 1..Len(url) : url[i] \in {H2, CF}

\* path.split('/')[-1].split('?')[0]
FileName(path) == UpTo(LastPart(path, SLASH), QMARK)

url_to_local_path(url) ==
  LET path == LStrip(UrlPath(url)) IN
  IF HasWebsiteFiles(url) /\ NumParts(path, SLASH) >= 2
    THEN IF Contains(path, <<SLASH, "css", SLASH>>)
           THEN <<"assets", SLASH, "css", SLASH>> \o FileName(path)
         ELSE IF Contains(path, <<SLASH, "js", SLASH>>)
           THEN <<"assets", SLASH, "js", SLASH>> \o FileName(path)
         ELSE <<"assets", SLASH, "images", SLASH>> \o FileName(path)
  ELSE IF ~HasWebsiteFiles(url) /\ HasCloudfront(url)
    THEN <<"assets", SLASH, "js", SLASH>> \o FileName(path)
  ELSE <<"assets", SLASH>> \o FileName(path)

\* ------------------------------------------------------------------ bounds

\* longest HTML text of a run of main(), in tokens
MaxLen == 5
\* largest response body, in bytes
MaxSize == 2
\* longest text handed to extract_cdn_urls alone, in tokens
MaxExtLen == 4
\* longest URL tail handed to url_to_local_path alone, in tokens
MaxTailLen == 4

SeqsUpTo(A, n) == UNION {[1..k -> A] : k \in 0..n}

\* texts of the input file in a run of main()
MainAlphabet == {H1, H2, "x", SLASH, DQUOTE}
\* texts handed to extract_cdn_urls alone
ExtAlphabet == {H1, H2, "x", DQUOTE, SQUOTE, SPACE, RPAREN, LT, GT}
\* URL tails handed to url_to_local_path alone
TailAlphabet == {"x", SLASH, QMARK, "css", "js", WF, CF}

\* ------------------------------------------------------------------- state

VARIABLES
  file_state,   \* HTML_FILE on disk: "ok", "missing" or "undecodable"
  file_html,    \* the text of HTML_FILE
  pc,           \* where main() is
  html,         \* main's html
  urls,         \* main's urls
  order,        \* sorted(urls)
  idx,          \* number of iterations of the for loop finished
  attempts,     \* the calls of download_asset that returned, in order
  url_mapping,  \* main's url_mapping, as its (url, path) items in insertion order
  total_size,   \* main's total_size
  disk,         \* files under OUTPUT_DIR/assets: local path -> byte length
  out_dir,      \* OUTPUT_DIR exists
  out_html,     \* the texts written to OUTPUT_DIR/index.html, in order
  summary,      \* the (count, bytes) of the printed summary line, or <<>>
  arg,          \* argument of a function called on its own
  ret           \* its result

vars == <<file_state, file_html, pc, html, urls, order, idx, attempts,
          url_mapping, total_size, disk, out_dir, out_html, summary, arg, ret>>

mainVarsButPc == <<file_state, file_html, html, urls, order, idx, attempts,
                   url_mapping, total_size, disk, out_dir, out_html, summary>>

NoFile == [p \in {} |-> 0]

MainIdle ==
  /\ html = <<>> /\ urls = {} /\ order = <<>> /\ idx = 0 /\ attempts = <<>>
  /\ url_mapping = <<>> /\ total_size = 0 /\ disk = NoFile
  /\ out_dir = FALSE /\ out_html = <<>> /\ summary = <<>>

\* ------------------------------------------------------------------ main()

RECURSIVE SortedSeq_Desc(_)
\* sorted(urls, reverse=True)
SortedSeq_Desc(S) ==
  IF S = {} THEN <<>>
  ELSE LET m == CHOOSE u \in S : \A v \in S \ {u} : StrLess(v, u)
       IN <<m>> \o SortedSeq_Desc(S \ {m})

RECURSIVE SortedSeq(_)
\* sorted(urls)
SortedSeq(S) ==
  IF S = {} THEN <<>>
  ELSE LET m == CHOOSE u \in S : \A v \in S \ {u} : StrLess(u, v)
       IN <<m>> \o SortedSeq(S \ {m})

\* url_mapping[url] = local_path outside the "if success"
MappingAfter_Always(mapping, url, local_path, success) ==
  Append(mapping, <<url, local_path>>)

\* url_mapping[local_path] = url: key and value swapped
MappingAfter_Swapped(mapping, url, local_path, success) ==
  IF success THEN Append(mapping, <<local_path, url>>) ELSE mapping

\* url_mapping[url] = local_path, under "if success"
MappingAfter(mapping, url, local_path, success) ==
  IF success THEN Append(mapping, <<url, local_path>>) ELSE mapping

\* total_size = result: assignment for +=
TotalAfter_Assign(total, success, result) ==
  IF success THEN result ELSE total

\* total_size += result, under "if success"
TotalAfter(total, success, result) ==
  IF success THEN total + result ELSE total

\* the file at full_path after open(full_path, 'wb') and a write of n bytes
DiskAfter(d, local_path, n) ==
  [p \in DOMAIN d \cup {local_path} |-> IF p = local_path THEN n ELSE d[p]]

RECURSIVE RewriteFrom(_, _, _)
\* for old_url, new_path in url_mapping.items(): new_html = new_html.replace(...)
RewriteFrom(new_html, mapping, i) ==
  IF i > Len(mapping) THEN new_html
  ELSE RewriteFrom(Replace(new_html, mapping[i][1], mapping[i][2]), mapping, i + 1)

\* new_html after the rewrite loop, every character with its position in html
RewriteTrace(text, mapping) == RewriteFrom(Tagged(text), mapping, 1)

\* new_html after the rewrite loop
RewriteHTML(text, mapping) == Untag(RewriteTrace(text, mapping))

InitMain ==
  /\ file_state \in {"ok", "missing", "undecodable"}
  /\ file_html \in IF file_state = "ok" THEN SeqsUpTo(MainAlphabet, MaxLen) ELSE {<<>>}
  /\ pc = "start"
  /\ MainIdle
  /\ arg = <<>> /\ ret = <<>>

\* the read wrapped in a try that goes on with an empty text
ReadHTML_GoesOn ==
  /\ pc = "start"
  /\ html' = file_html
  /\ pc' = "extract"
  /\ UNCHANGED <<file_state, file_html, urls, order, idx, attempts, url_mapping,
                 total_size, disk, out_dir, out_html, summary, arg, ret>>

\* with open(HTML_FILE, 'r', encoding='utf-8') as f: html = f.read()
ReadHTML ==
  /\ pc = "start"
  /\ IF file_state = "ok"
       THEN html' = file_html /\ pc' = "extract"
       ELSE html' = html /\ pc' = "aborted"
  /\ UNCHANGED <<file_state, file_html, urls, order, idx, attempts, url_mapping,
                 total_size, disk, out_dir, out_html, summary, arg, ret>>

\* urls = extract_cdn_urls(html)
ExtractURLs ==
  /\ pc = "extract"
  /\ urls' = extract_cdn_urls(html)
  /\ pc' = "mkdir"
  /\ UNCHANGED <<file_state, file_html, html, order, idx, attempts, url_mapping,
                 total_size, disk, out_dir, out_html, summary, arg, ret>>

\* os.makedirs(OUTPUT_DIR, exist_ok=True); url_mapping = {}; total_size = 0;
\* and the loop header takes sorted(urls)
MakeOutputDir ==
  /\ pc = "mkdir"
  /\ out_dir' = TRUE
  /\ url_mapping' = <<>>
  /\ total_size' = 0
  /\ order' = SortedSeq(urls)
  /\ idx' = 0
  /\ pc' = "loop"
  /\ UNCHANGED <<file_state, file_html, html, urls, attempts, disk, out_html,
                 summary, arg, ret>>

\* One iteration of the loop in which download_asset returns (True, n).
DownloadOK(n) ==
  /\ pc = "loop" /\ idx < Len(order)
  /\ LET url == order[idx + 1]
         local_path == url_to_local_path(url)
     IN /\ disk' = DiskAfter(disk, local_path, n)
        /\ attempts' = Append(attempts, [url |-> url, success |-> TRUE, result |-> n])
        /\ url_mapping' = MappingAfter(url_mapping, url, local_path, TRUE)
        /\ total_size' = TotalAfter(total_size, TRUE, n)
  /\ idx' = idx + 1
  /\ UNCHANGED <<file_state, file_html, pc, html, urls, order, out_dir, out_html,
                 summary, arg, ret>>

\* One iteration in which requests.get or raise_for_status raises (network
\* error, timeout, bad status), or open() does: download_asset returns
\* (False, str(e)) and no file is touched.
DownloadFetchError ==
  /\ pc = "loop" /\ idx < Len(order)
  /\ LET url == order[idx + 1]
         local_path == url_to_local_path(url)
     IN /\ attempts' = Append(attempts, [url |-> url, success |-> FALSE, result |-> 0])
        /\ url_mapping' = MappingAfter(url_mapping, url, local_path, FALSE)
        /\ total_size' = TotalAfter(total_size, FALSE, 0)
  /\ idx' = idx + 1
  /\ UNCHANGED <<file_state, file_html, pc, html, urls, order, disk, out_dir,
                 out_html, summary, arg, ret>>

\* One iteration in which f.write raises after open(full_path, 'wb') has
\* truncated the file: k bytes of the body are on disk, (False, str(e)) returned.
DownloadWriteError(k) ==
  /\ pc = "loop" /\ idx < Len(order)
  /\ LET url == order[idx + 1]
         local_path == url_to_local_path(url)
     IN /\ disk' = DiskAfter(disk, local_path, k)
        /\ attempts' = Append(attempts, [url |-> url, success |-> FALSE, result |-> 0])
        /\ url_mapping' = MappingAfter(url_mapping, url, local_path, FALSE)
        /\ total_size' = TotalAfter(total_size, FALSE, 0)
  /\ idx' = idx + 1
  /\ UNCHANGED <<file_state, file_html, pc, html, urls, order, out_dir, out_html,
                 summary, arg, ret>>

\* One iteration in which os.makedirs(os.path.dirname(full_path)) raises: the
\* call stands before the try, so the exception leaves download_asset and main.
DownloadMkdirError ==
  /\ pc = "loop" /\ idx < Len(order)
  /\ pc' = "crashed"
  /\ UNCHANGED <<file_state, file_html, html, urls, order, idx, attempts,
                 url_mapping, total_size, disk, out_dir, out_html, summary, arg, ret>>

\* The rewrite loop and the write of OUTPUT_DIR/index.html.
RewriteAndSave ==
  /\ pc = "loop" /\ idx = Len(order)
  /\ out_html' = Append(out_html, RewriteHTML(html, url_mapping))
  /\ pc' = "summary"
  /\ UNCHANGED <<file_state, file_html, html, urls, order, idx, attempts,
                 url_mapping, total_size, disk, out_dir, summary, arg, ret>>

\* print(f"Downloaded {len(url_mapping)} assets ({total_size:,} bytes total)")
PrintSummary ==
  /\ pc = "summary"
  /\ summary' = <<Len(url_mapping), total_size>>
  /\ pc' = "done"
  /\ UNCHANGED <<file_state, file_html, html, urls, order, idx, attempts,
                 url_mapping, total_size, disk, out_dir, out_html, arg, ret>>

\* ------------------------------------------- the two pure functions alone

\* a call of url_to_local_path on a URL of one of three hosts
InitMapper ==
  /\ arg \in {<<h>> \o t : h \in Hosts, t \in SeqsUpTo(TailAlphabet, MaxTailLen)}
  /\ ret = <<>>
  /\ pc = "call"
  /\ file_state = "ok" /\ file_html = <<>>
  /\ MainIdle

CallMapper ==
  /\ pc = "call"
  /\ ret' = url_to_local_path(arg)
  /\ pc' = "return"
  /\ UNCHANGED <<mainVarsButPc, arg>>

SpecMapper == InitMapper /\ [][CallMapper]_vars

\* a call of extract_cdn_urls on a text
InitExtract ==
  /\ arg \in SeqsUpTo(ExtAlphabet, MaxExtLen)
  /\ ret = {}
  /\ pc = "call"
  /\ file_state = "ok" /\ file_html = <<>>
  /\ MainIdle

CallExtract ==
  /\ pc = "call"
  /\ ret' = extract_cdn_urls(arg)
  /\ pc' = "return"
  /\ UNCHANGED <<mainVarsButPc, arg>>

SpecExtract == InitExtract /\ [][CallExtract]_vars

Init == InitMain

Next ==
  \/ ReadHTML
  \/ ExtractURLs
  \/ MakeOutputDir
  \/ \E n \in 1..MaxSize : DownloadOK(n)
  \/ DownloadFetchError
  \/ \E k \in 0..(MaxSize - 1) : DownloadWriteError(k)
  \/ DownloadMkdirError
  \/ RewriteAndSave
  \/ PrintSummary

Spec == Init /\ [][Next]_vars
\* ===================================================================
\* Properties
\* ===================================================================

\* number of positions of s at which u occurs
Count(s, u) == Cardinality({i \in 1..Len(s) : StartsAt(s, u, i)})

Keys == {url_mapping[i][1] : i \in 1..Len(url_mapping)}
Failed == {attempts[j].url : j \in {j \in 1..Len(attempts) : ~attempts[j].success}}
Succeeded == {attempts[j].url : j \in {j \in 1..Len(attempts) : attempts[j].success}}
Attempted == {attempts[j].url : j \in 1..Len(attempts)}

\* index.html has been written
Saved == pc \in {"summary", "done"}

\* no successfully downloaded URL is a substring of another extracted URL
SuccessIsolated == \A v \in Keys : \A w \in urls \ {v} : ~Contains(w, v)

RoundTrip(i) ==
  /\ Count(out_html[1], url_mapping[i][1]) = 0
  /\ Contains(out_html[1], url_mapping[i][2])

\* C1 as stated: once index.html is written, every downloaded URL is gone from
\* it and its local path occurs in it, whatever the URLs are.
C1_Orig == Saved => \A i \in 1..Len(url_mapping) : RoundTrip(i)

\* C1, amended: once index.html is written, every downloaded URL is gone from it
\* and its local path occurs in it, provided no downloaded URL is a substring
\* of another extracted URL.
C1_RoundTrip ==
  (Saved /\ SuccessIsolated) => \A i \in 1..Len(url_mapping) : RoundTrip(i)

\* a finished run with a downloaded URL that has a failed URL as a substring
C1_Witness ==
  /\ pc = "done" /\ SuccessIsolated
  /\ \E u \in Keys : \E w \in Failed : Contains(u, w)

\* the occurrence of f at position p of html stands, character for character,
\* in the rewritten text, whose characters carry their positions in html
Preserved(trace, f, p) ==
  \E q \in 1..Len(trace) :
    \A k \in 1..Len(f) : q + k - 1 <= Len(trace) /\ trace[q + k - 1] = <<f[k], p + k - 1>>

AllPreserved(trace, f) ==
  \A p \in 1..Len(html) : StartsAt(html, f, p) => Preserved(trace, f, p)

RECURSIVE SumResults(_, _)
\* the byte counts the successful calls of download_asset returned, summed
SumResults(log, i) ==
  IF i > Len(log) THEN 0
  ELSE (IF log[i].success THEN log[i].result ELSE 0) + SumResults(log, i + 1)

RECURSIVE SumFiles(_)
\* the byte lengths on disk of the files at the paths P, summed
SumFiles(P) ==
  IF P = {} THEN 0
  ELSE LET q == CHOOSE q \in P : TRUE IN disk[q] + SumFiles(P \ {q})

WrittenPaths == {url_mapping[i][2] : i \in 1..Len(url_mapping)}

NoSharedPath ==
  \A u \in urls : \A v \in urls \ {u} : url_to_local_path(u) # url_to_local_path(v)

\* C3 as stated: the reported total is the sum of the lengths of the files the
\* run wrote, also when two downloaded URLs share a local path.
C3_Orig == pc = "done" => summary[2] = SumFiles(WrittenPaths)

\* C3, amended: the reported total is the sum of the byte counts the successful
\* calls of download_asset returned; it is the sum of the lengths of the files
\* the run wrote when no two extracted URLs share a local path.
C3_Summary ==
  pc = "done" =>
    /\ summary[2] = SumResults(attempts, 1)
    /\ summary[1] = Cardinality(Succeeded)
    /\ NoSharedPath => summary[2] = SumFiles(WrittenPaths)

\* a finished run with two downloads of different sizes at different paths
C3_Witness ==
  /\ pc = "done" /\ NoSharedPath /\ Len(url_mapping) = 2
  /\ attempts[1].result # attempts[2].result

\* the URL path the claims speak of: from the slash after the host to the query
ClaimedPath(url) == <<SLASH>> \o Expand(UpTo(Tail(url), QMARK))

ClaimedFileName(url) == LastPart(ClaimedPath(url), SLASH)

\* C4 as stated: a URL on the primary CDN host goes to assets/css/<filename>
\* when its path contains /css/, else to assets/js/<filename> when it contains
\* /js/, else to assets/images/<filename>, at every path depth (checked on the
\* URLs whose filename is not empty).
C4_Claim ==
  (pc = "return" /\ arg[1] = H1 /\ ClaimedFileName(arg) # <<>>) =>
    ret = (IF Contains(ClaimedPath(arg), <<SLASH, "css", SLASH>>)
             THEN <<"assets", SLASH, "css", SLASH>>
           ELSE IF Contains(ClaimedPath(arg), <<SLASH, "js", SLASH>>)
             THEN <<"assets", SLASH, "js", SLASH>>
           ELSE <<"assets", SLASH, "images", SLASH>>) \o ClaimedFileName(arg)

\* C5 as stated: a URL on the secondary CDN host goes to assets/js/<filename>
\* and a URL on any other host to assets/<filename>, whatever its path and
\* query contain.
C5_Claim ==
  pc = "return" =>
    /\ arg[1] = H2 => ret = <<"assets", SLASH, "js", SLASH>> \o ClaimedFileName(arg)
    /\ arg[1] = HX => ret = <<"assets", SLASH>> \o ClaimedFileName(arg)

\* C6 as stated: whichever step of download_asset fails, the call returns a
\* failure outcome and main goes on to write index.html and print the summary:
\* no failure of a single asset ends the run.
C6_Claim == pc # "crashed"

\* C7: when HTML_FILE is missing, unreadable or not UTF-8, main stops at the
\* read: OUTPUT_DIR is not created, nothing is downloaded or written.
C7_FatalInput ==
  file_state # "ok" => /\ pc \in {"start", "aborted"}
                       /\ MainIdle
                       /\ Attempted = {}

\* a run aborted at the read
C7_Witness == pc = "aborted" /\ file_state = "undecodable"

\* The URLs of s by the description: in each maximal run of characters that
\* are not Stop, from the first occurrence of a host prefix that has a
\* character after it to the end of the run.
DescribedURLs(s, Stop(_)) ==
  {SubSeq(s, p[1], p[2]) :
     p \in {p \in (1..Len(s)) \X (1..Len(s)) :
              /\ s[p[1]] \in {H1, H2}
              /\ p[1] < p[2]
              /\ \A k \in p[1]..p[2] : ~Stop(s[k])
              /\ (p[2] = Len(s) \/ Stop(s[p[2] + 1]))
              /\ ~\E m \in 1..(p[1] - 1) :
                    s[m] = s[p[1]] /\ \A k \in m..p[1] : ~Stop(s[k])}}

StopsAsClaimed(c) == c \in {DQUOTE, SQUOTE, SPACE, RPAREN, LT, GT}

StopsInPattern(c) == c \in {DQUOTE, SPACE, RPAREN, GT}

\* C8 as stated: the result is the set of the substrings that start with a CDN
\* host prefix and run up to the first double or single quote, whitespace,
\* closing parenthesis, or opening or closing angle bracket.
C8_Orig == pc = "return" => ret = DescribedURLs(arg, StopsAsClaimed)

\* C8, amended: the result is the set of the substrings that start with a CDN
\* host prefix and run up to the first double quote, whitespace, closing
\* parenthesis or closing angle bracket; a single quote and an opening angle
\* bracket are part of the URL.
C8_Extract == pc = "return" => ret = DescribedURLs(arg, StopsInPattern)

\* a text with a single quote, a URL that holds it, and two URLs in all
C8_Witness ==
  /\ pc = "return" /\ Cardinality(ret) = 2
  /\ \E u \in ret : \E i \in 1..Len(u) : u[i] = SQUOTE

\* C9: the calls of download_asset that returned are the first URLs of the
\* ascending order of the extracted URLs, one call each; index.html is written
\* at most once and only after the call for the last URL; a run stopped in the
\* loop has written no index.html and has the files of its downloads on disk.
C9_Ordering ==
  /\ Len(attempts) <= Len(order)
  /\ \A j \in 1..Len(attempts) : attempts[j].url = order[j]
  /\ \A i \in 1..Len(order) : \A j \in 1..Len(order) :
       i < j => StrLess(order[i], order[j])
  /\ pc \in {"loop", "crashed", "summary", "done"} =>
       {order[i] : i \in 1..Len(order)} = urls
  /\ Len(out_html) <= 1
  /\ Len(out_html) = 1 => Len(attempts) = Cardinality(urls) /\ Saved
  /\ Saved => Len(out_html) = 1
  /\ pc \in {"loop", "crashed"} =>
       /\ out_html = <<>>
       /\ \A u \in Succeeded : url_to_local_path(u) \in DOMAIN disk

\* a run stopped in the loop after one download, with a URL left
C9_Witness ==
  /\ pc = "crashed" /\ Len(attempts) = 1 /\ Len(order) = 2
  /\ attempts[1].success

\* every key of url_mapping is an extracted URL whose call of download_asset
\* returned success, no key occurs twice, and every value is
\* url_to_local_path of its key
C10_State ==
  \A i \in 1..Len(url_mapping) :
       /\ url_mapping[i][1] \in urls
       /\ url_mapping[i][1] \in Succeeded
       /\ url_mapping[i][2] = url_to_local_path(url_mapping[i][1])
       /\ \A j \in 1..Len(url_mapping) : url_mapping[j][1] = url_mapping[i][1] => j = i

\* url_mapping only grows: the items it has stay where and as they are
C10_Grows ==
  /\ Len(url_mapping) <= Len(url_mapping')
  /\ \A i \in 1..Len(url_mapping) : url_mapping'[i] = url_mapping[i]

\* C10: in every state the items of url_mapping are as C10_State says, and no
\* step removes or changes an item.
C10_Mapping == []C10_State /\ [][C10_Grows]_vars

\* url_mapping with one item in the middle of the loop, after a failure
C10_Witness ==
  /\ pc = "loop" /\ Len(url_mapping) = 1 /\ idx = 2 /\ idx = Len(order)
  /\ Failed # {}
====
